---- MODULE Spec2Model ----
(***************************************************************************)
(* Model of the commit extractor (apps/extractor): the Extractor class of  *)
(* utils/extract_commits.py and the command-line driver main.py.           *)
(*                                                                         *)
(* One process constructs one Extractor and calls extract() on it.  The    *)
(* pipeline is followed step by step (one commit of the traversal, one     *)
(* row of the write at a time) because an interrupt or a write failure     *)
(* can arrive between any two of these steps.                              *)
(*                                                                         *)
(* A commit object carries the attributes the properties read: hash,       *)
(* date, author, committer.  The other attributes of commit_to_dict are    *)
(* copied one to one by the code and are left out.                         *)
(***************************************************************************)
EXTENDS Integers, Sequences, FiniteSets, TLC

\* ---------------------------------------------------------------- bounds
MaxCommits == 2     \* longest repository history
MaxDate == 2        \* commit dates and the clock range over 0..MaxDate
MaxCalls == 2       \* extract() calls made on one instance

\* ------------------------------------------------------------- constants
DayLen == 2         \* clock ticks per calendar day
ArgparseError == 2  \* exit status of argparse on a rejected argument

\* ------------------------------------------------------ values and helpers
None == [none |-> TRUE]

Developer == [name |-> "dev", email |-> "dev@example.org"]

\* commit.author / commit.committer: a developer, or absent (falsy)
Persons == {None, Developer}

Commits ==
    [hash : 1..MaxCommits, date : 0..MaxDate, author : Persons, committer : Persons]

\* Histories: commit i of the history has hash i (hashes are unique within a
\* history), dates do not decrease along the history.
Histories ==
    UNION { { h \in [1..n -> Commits] :
                /\ \A i \in 1..n : h[i].hash = i
                /\ \A i \in 1..(n - 1) : h[i].date <= h[i + 1].date }
            : n \in 0..MaxCommits }

RepoUrl == "git@github.com:watch1fy/lambda-backend.git"

Cwd == "/work"

\* argparse: choices=["parquet", "csv"], default="parquet"
Choices == {"parquet", "csv"}

DefaultType == "parquet"

\* What the command line may carry for --type ("absent": flag not given).
ArgvTypes == {"absent", "parquet", "csv", "xml"}

\* What a caller may pass to Extractor(type=...): "" stands for a missing
\* selector (None or the empty string, both falsy).
Types == {"parquet", "csv", "xml", ""}

FileNames == {"commits.parquet.gzip", "commits.csv"}

NoFile == [state |-> "absent", rows |-> <<>>]

StaleFile == [state |-> "stale", rows |-> <<>>]

\* datetime(_today.year, _today.month, _today.day): the clock truncated to the day
StartOfDay(t) == t - (t % DayLen)

\* Repository(url): a commit source over the full history
Repository(url) == [url |-> url]

\* Repository(url, since=t): a commit source scoped to the commits from t on
RepositorySince(url, t) == [url |-> url, since |-> t]

VARIABLES
    hist,               \* the repository's history, oldest first
    now,                \* datetime.now() at construction
    files0,             \* the working directory before the run
    files,              \* the working directory: file name -> content
    pc,                 \* position of the process
    entry,              \* "cli" (main.py) or "api" (Extractor built by a caller)
    today,              \* the today argument of __init__
    status,             \* exit status, meaningful once pc = "exited"
    error,              \* what ended the process
    type,               \* self.type
    repo,               \* self.repo
    commits,            \* self.commits
    commit_data_frame,  \* self.commit_data_frame
    parent_path,        \* self.parent_path
    export_path,        \* self.export_path
    calls,              \* extract() calls made so far
    consulted,          \* traverse_commits() calls made so far
    cursor,             \* commits of the current traversal already delivered
    yielded,            \* commits delivered to the current extract() call
    wcursor,            \* rows of the current write already on disk
    retval              \* what the last extract() returned

vars ==
    << hist, now, files0, files, pc, entry, today, status, error, type, repo,
       commits, commit_data_frame, parent_path, export_path, calls, consulted,
       cursor, yielded, wcursor, retval >>

env == << hist, now, files0 >>

self == << type, repo, commits, commit_data_frame, parent_path, export_path >>

\* ------------------------------------------------------- pure functions

\* The sequence the commit source delivers: the whole history, or the
\* commits dated on or after `since`.
traverse_commits(r, h) ==
    IF "since" \in DOMAIN r
    THEN SelectSeq(h, LAMBDA c : c.date >= r.since)
    ELSE h

\* commit_to_dict with the absent cases mapped to an empty identity instead
\* of None
commit_to_dict_sentinel(commit) ==
    [ hash |-> commit.hash,
      author |-> IF commit.author # None
                 THEN [name |-> commit.author.name, email |-> commit.author.email]
                 ELSE [name |-> "", email |-> ""],
      committer |-> IF commit.committer # None
                    THEN [name |-> commit.committer.name, email |-> commit.committer.email]
                    ELSE [name |-> "", email |-> ""],
      committer_date |-> commit.date ]

commit_to_dict(commit) ==
    [ hash |-> commit.hash,
      author |-> IF commit.author # None
                 THEN [name |-> commit.author.name, email |-> commit.author.email]
                 ELSE None,
      committer |-> IF commit.committer # None
                    THEN [name |-> commit.committer.name, email |-> commit.committer.email]
                    ELSE None,
      committer_date |-> commit.date ]

\* DataFrame(records): one row per record, in order, under a 0-based index
DataFrame(records) ==
    [rows |-> [i \in 1..Len(records) |-> [index |-> i - 1, data |-> records[i]]]]

\* str() of a nested value as to_csv writes it; a missing value is an empty cell
CsvCell(v) == IF v = None THEN [text |-> ""] ELSE [text |-> "repr", of |-> v]

\* One line of the csv file: the index leftmost, nested values stringified
CsvRow(row) ==
    [ index |-> row.index,
      hash |-> row.data.hash,
      author |-> CsvCell(row.data.author),
      committer |-> CsvCell(row.data.committer),
      committer_date |-> row.data.committer_date ]

\* One row of the parquet file: nested values kept as structs
ParquetRow(row) ==
    [ index |-> row.index,
      hash |-> row.data.hash,
      author |-> row.data.author,
      committer |-> row.data.committer,
      committer_date |-> row.data.committer_date ]

\* ExportFilename with the two names exchanged
ExportFilename_swapped(t) ==
    IF t = "parquet" THEN "commits.csv" ELSE "commits.parquet.gzip"

ExportFilename(t) == IF t = "parquet" THEN "commits.parquet.gzip" ELSE "commits.csv"

SerializeRow(t, row) == IF t = "parquet" THEN ParquetRow(row) ELSE CsvRow(row)

\* os.path.join(self.parent_path, export_filename)
PathJoin(dir, name) == [dir |-> dir, name |-> name]

\* ------------------------------------------------------------------ Init
Init ==
    /\ hist \in Histories
    /\ now \in (MaxDate - 1)..MaxDate
    /\ files0 \in { [f \in FileNames |-> NoFile], [f \in FileNames |-> StaleFile] }
    /\ files = files0
    /\ pc = "start"
    /\ entry = "none"
    /\ today = FALSE
    /\ status = 0
    /\ error = "none"
    /\ type = ""
    /\ repo = None
    /\ commits = <<>>
    /\ commit_data_frame = None
    /\ parent_path = ""
    /\ export_path = None
    /\ calls = 0
    /\ consulted = 0
    /\ cursor = 0
    /\ yielded = <<>>
    /\ wcursor = 0
    /\ retval = None

\* --------------------------------------------------------------- actions

\* The process ends: sys.exit(code), or an exception reaching the top level.
Exit(code, why) ==
    /\ pc' = "exited"
    /\ status' = code
    /\ error' = why

\* __init__ that resolves the full-history source whatever the flag says
ExtractorInit_rescoped(t, td) ==
    /\ type' = t
    /\ repo' = Repository(RepoUrl)
    /\ commits' = <<>>
    /\ commit_data_frame' = None
    /\ parent_path' = Cwd
    /\ export_path' = None
    /\ today' = td

\* Extractor.__init__
ExtractorInit(t, td) ==
    /\ type' = t
    /\ repo' = IF td THEN RepositorySince(RepoUrl, StartOfDay(now))
                     ELSE Repository(RepoUrl)
    /\ commits' = <<>>
    /\ commit_data_frame' = None
    /\ parent_path' = Cwd
    /\ export_path' = None
    /\ today' = td

\* main(): parse the arguments, then construct the Extractor
MainConstruct ==
    /\ pc = "start"
    /\ \E a \in ArgvTypes, td \in BOOLEAN :
        IF a # "absent" /\ a \notin Choices
        THEN /\ Exit(ArgparseError, "argparse")
             /\ entry' = "cli"
             /\ UNCHANGED << env, files, today, self, calls, consulted, cursor,
                             yielded, wcursor, retval >>
        ELSE /\ ExtractorInit(IF a = "absent" THEN DefaultType ELSE a, td)
             /\ pc' = "constructed"
             /\ entry' = "cli"
             /\ UNCHANGED << env, files, status, error, calls, consulted, cursor,
                             yielded, wcursor, retval >>

\* A caller constructs the Extractor itself, with any selector
ApiConstruct ==
    /\ pc = "start"
    /\ \E t \in Types, td \in BOOLEAN : ExtractorInit(t, td)
    /\ pc' = "constructed"
    /\ entry' = "api"
    /\ UNCHANGED << env, files, status, error, calls, consulted, cursor,
                    yielded, wcursor, retval >>

\* extract() that starts every call from an empty buffer
BeginExtract_reset ==
    /\ calls' = calls + 1
    /\ pc' = "traverse"
    /\ consulted' = consulted + 1
    /\ cursor' = 0
    /\ yielded' = <<>>
    /\ commits' = <<>>
    /\ UNCHANGED << env, files, entry, today, status, error, type, repo,
                    commit_data_frame, parent_path, export_path, wcursor,
                    retval >>

\* extract() is entered and _extract_commits starts the traversal
BeginExtract ==
    /\ calls' = calls + 1
    /\ IF repo = None
       THEN /\ Exit(1, "Exception")
            /\ UNCHANGED << consulted, cursor, yielded >>
       ELSE /\ pc' = "traverse"
            /\ consulted' = consulted + 1
            /\ cursor' = 0
            /\ yielded' = <<>>
            /\ UNCHANGED << status, error >>
    /\ UNCHANGED << env, files, entry, today, self, wcursor, retval >>

Extract ==
    /\ pc = "constructed"
    /\ BeginExtract

\* A caller calls extract() again on the same instance
ExtractAgain ==
    /\ pc = "returned"
    /\ entry = "api"
    /\ calls < MaxCalls
    /\ BeginExtract

\* for commit in self.repo.traverse_commits(): self.commits.append(...)
\* One step takes the next commit of the source, or finds the source
\* exhausted and leaves the loop.
extract_commits ==
    /\ pc = "traverse"
    /\ LET src == traverse_commits(repo, hist) IN
        IF cursor < Len(src)
        THEN /\ commits' = Append(commits, commit_to_dict(src[cursor + 1]))
             /\ yielded' = Append(yielded, src[cursor + 1])
             /\ cursor' = cursor + 1
             /\ pc' = "traverse"
        ELSE /\ pc' = "frame"
             /\ UNCHANGED << commits, yielded, cursor >>
    /\ UNCHANGED << env, files, entry, today, status, error, type, repo,
                    commit_data_frame, parent_path, export_path, calls,
                    consulted, wcursor, retval >>

\* _create_data_frame without the empty-buffer guard
create_data_frame_unguarded ==
    /\ pc = "frame"
    /\ commit_data_frame' = DataFrame(commits)
    /\ pc' = "export"
    /\ UNCHANGED << env, files, entry, today, status, error, type, repo,
                    commits, parent_path, export_path, calls, consulted,
                    cursor, yielded, wcursor, retval >>

\* _create_data_frame
create_data_frame ==
    /\ pc = "frame"
    /\ IF commits = <<>>
       THEN /\ Exit(0, "SystemExit")
            /\ UNCHANGED commit_data_frame
       ELSE /\ commit_data_frame' = DataFrame(commits)
            /\ pc' = "export"
            /\ UNCHANGED << status, error >>
    /\ UNCHANGED << env, files, entry, today, type, repo, commits, parent_path,
                    export_path, calls, consulted, cursor, yielded, wcursor,
                    retval >>

\* _export that falls back to csv when the selector is not recognised
export_fallback ==
    /\ pc = "export"
    /\ IF type = "" \/ commit_data_frame = None
       THEN /\ Exit(1, "ValueError")
            /\ UNCHANGED << files, wcursor >>
       ELSE /\ files' = [files EXCEPT ![ExportFilename(type)] =
                            [state |-> "partial", rows |-> <<>>]]
            /\ wcursor' = 0
            /\ pc' = "write"
            /\ UNCHANGED << status, error >>
    /\ UNCHANGED << env, entry, today, self, calls, consulted, cursor, yielded,
                    retval >>

\* _export, up to the point where to_parquet / to_csv has opened (created or
\* truncated) the output file
export ==
    /\ pc = "export"
    /\ IF type = ""
       THEN /\ Exit(1, "ValueError")
            /\ UNCHANGED << files, wcursor >>
       ELSE IF commit_data_frame = None
       THEN /\ Exit(1, "ValueError")
            /\ UNCHANGED << files, wcursor >>
       ELSE IF type = "parquet" \/ type = "csv"
       THEN /\ files' = [files EXCEPT ![ExportFilename(type)] =
                            [state |-> "partial", rows |-> <<>>]]
            /\ wcursor' = 0
            /\ pc' = "write"
            /\ UNCHANGED << status, error >>
       ELSE /\ Exit(1, "ValueError")
            /\ UNCHANGED << files, wcursor >>
    /\ UNCHANGED << env, entry, today, self, calls, consulted, cursor, yielded,
                    retval >>

\* to_parquet / to_csv writes the next row of the table to the open file
write_row ==
    /\ pc = "write"
    /\ wcursor < Len(commit_data_frame.rows)
    /\ files' = [files EXCEPT ![ExportFilename(type)].rows =
                    Append(@, SerializeRow(type, commit_data_frame.rows[wcursor + 1]))]
    /\ wcursor' = wcursor + 1
    /\ UNCHANGED << env, pc, entry, today, status, error, self, calls,
                    consulted, cursor, yielded, retval >>

\* to_parquet / to_csv closes the file; _export sets export_path and
\* extract() returns it
write_close ==
    /\ pc = "write"
    /\ wcursor = Len(commit_data_frame.rows)
    /\ files' = [files EXCEPT ![ExportFilename(type)].state = "complete"]
    /\ export_path' = PathJoin(parent_path, ExportFilename(type))
    /\ retval' = export_path'
    /\ pc' = "returned"
    /\ UNCHANGED << env, entry, today, status, error, type, repo, commits,
                    commit_data_frame, parent_path, calls, consulted, cursor,
                    yielded, wcursor >>

\* The underlying write fails (OSError): nothing catches it, the file stays
\* as it is at that moment
write_fail ==
    /\ pc = "write"
    /\ Exit(1, "OSError")
    /\ UNCHANGED << env, files, entry, today, self, calls, consulted, cursor,
                    yielded, wcursor, retval >>

\* main.py: except KeyboardInterrupt: sys.exit(1)
Interrupt ==
    /\ pc \in {"constructed", "traverse", "frame", "export", "write", "returned"}
    /\ Exit(1, "KeyboardInterrupt")
    /\ UNCHANGED << env, files, entry, today, self, calls, consulted, cursor,
                    yielded, wcursor, retval >>

\* print(extractor_tool.extract()) and the end of the script
Finish ==
    /\ pc = "returned"
    /\ Exit(0, "none")
    /\ UNCHANGED << env, files, entry, today, self, calls, consulted, cursor,
                    yielded, wcursor, retval >>

Next ==
    \/ MainConstruct
    \/ ApiConstruct
    \/ Extract
    \/ ExtractAgain
    \/ extract_commits
    \/ create_data_frame
    \/ export
    \/ write_row
    \/ write_close
    \/ write_fail
    \/ Interrupt
    \/ Finish

Spec == Init /\ [][Next]_vars

\* ---------------------------------------------------------------- claims

\* The process has built an Extractor (argparse did not reject the run).
Constructed == repo # None

\* Local midnight of the current day.
Midnight == now - (now % DayLen)

\* The commits in scope: from today's midnight on under the today flag, the
\* whole history otherwise.
InScope ==
    IF today THEN SelectSeq(hist, LAMBDA c : c.date >= Midnight) ELSE hist

\* The selector the run was given is missing or not a supported format.
BadSelector == Constructed /\ type # "parquet" /\ type # "csv"

\* The name the format selector stands for.
ExpectedName ==
    IF type = "parquet" THEN "commits.parquet.gzip"
    ELSE IF type = "csv" THEN "commits.csv"
    ELSE "none"

Hashes(s) == [i \in 1..Len(s) |-> s[i].hash]

IsPrefix(s, t) == Len(s) <= Len(t) /\ \A i \in 1..Len(s) : s[i] = t[i]

\* C1: when extract() has written its table, the table has one row per
\* commit the source delivered to that call, in delivery order (same row
\* count, every hash exactly once).
C1_OneRowPerDeliveredCommit ==
    (pc = "returned" /\ Len(yielded) >= 1) =>
        Hashes(files[ExportFilename(type)].rows) = Hashes(yielded)

\* C2: with zero commits in scope no data frame is built, _export is never
\* reached, no file is touched, and a run that ends without being
\* interrupted ends by sys.exit(0).
C2_EmptyExitsZero ==
    (Constructed /\ InScope = <<>>) =>
        /\ commit_data_frame = None
        /\ pc \notin {"export", "write", "returned"}
        /\ files = files0
        /\ (pc = "exited" /\ error # "KeyboardInterrupt") =>
                (status = 0 /\ error = "SystemExit")

C2_Witness ==
    /\ Constructed /\ InScope = <<>> /\ calls = 1
    /\ pc = "exited" /\ error = "SystemExit" /\ status = 0

\* C3: when extract() returns, exactly the file the selector names has been
\* written in full (every other file is as before the run) and the returned
\* path is that file's absolute path.
C3_OneFileNamedBySelector ==
    pc = "returned" =>
        /\ type \in {"parquet", "csv"}
        /\ files[ExpectedName].state = "complete"
        /\ Len(files[ExpectedName].rows) = Len(commit_data_frame.rows)
        /\ \A f \in FileNames \ {ExpectedName} : files[f] = files0[f]
        /\ retval = [dir |-> Cwd, name |-> ExpectedName]
        /\ export_path = retval

C3_Witness ==
    /\ pc = "returned" /\ type = "csv"
    /\ files0["commits.csv"].state = "stale"
    /\ files["commits.csv"].state = "complete"

\* C4: an Extractor constructed with an unsupported selector never consults
\* the commit source.
C4_BadSelectorNeverTraverses ==
    BadSelector => consulted = 0

\* C5: a run whose selector is missing or unrecognised never ends with
\* status 0.
C5_BadSelectorNonZero ==
    (pc = "exited" /\ (BadSelector \/ error = "argparse")) => status # 0

\* C6: with a missing or unsupported selector no file is created or
\* overwritten and export_path stays unset; once the table has been built
\* the run ends in a fatal error before any write.
C6_BadSelectorNoWrite ==
    BadSelector =>
        /\ files = files0
        /\ export_path = None
        /\ pc \notin {"write", "returned"}
        /\ (pc = "exited" /\ commit_data_frame # None) =>
                (status # 0 /\ error \in {"ValueError", "KeyboardInterrupt"})

C6_Witness ==
    /\ BadSelector /\ commit_data_frame # None
    /\ pc = "exited" /\ error = "ValueError"

\* C7: a run ended by an interrupt or a write failure has a non-zero status
\* and leaves no half-written file.
C7_AtomicWrite ==
    (pc = "exited" /\ error \in {"KeyboardInterrupt", "OSError"}) =>
        /\ status # 0
        /\ \A f \in FileNames : files[f].state # "partial"

\* C8: the source is scoped by the today flag and by nothing else: scoped to
\* the commits from local midnight on (inclusive) when the flag is set, the
\* full history when it is not; each traversal delivers exactly the commits
\* in scope, and a today run with every commit before midnight takes the
\* empty-result path.
C8_TodayHonoured ==
    Constructed =>
        /\ today => repo = [url |-> RepoUrl, since |-> Midnight]
        /\ ~today => repo = [url |-> RepoUrl]
        /\ IsPrefix(yielded, InScope)
        /\ pc \in {"frame", "export", "write", "returned"} => yielded = InScope
        /\ (/\ today
            /\ \A i \in 1..Len(hist) : hist[i].date < Midnight
            /\ pc = "exited" /\ error # "KeyboardInterrupt")
                => (commits = <<>> /\ status = 0 /\ error = "SystemExit")

C8_Witness ==
    /\ Constructed /\ today /\ hist # <<>>
    /\ \A i \in 1..Len(hist) : hist[i].date < Midnight
    /\ pc = "exited" /\ error = "SystemExit" /\ commits = <<>>

\* C9: every delivered commit has its record in the buffer, with an absent
\* author or committer recorded as None, and the traversal goes on to the
\* end of the source.
C9_AbsentMapsToNone ==
    /\ Len(yielded) <= Len(commits)
    /\ \A i \in 1..Len(yielded) :
        LET r == commits[Len(commits) - Len(yielded) + i] IN
            /\ r.hash = yielded[i].hash
            /\ yielded[i].author = None => r.author = None
            /\ yielded[i].committer = None => r.committer = None
            /\ yielded[i].author # None => r.author = yielded[i].author
            /\ yielded[i].committer # None => r.committer = yielded[i].committer
    /\ error \notin {"AttributeError", "TypeError"}
    /\ pc = "frame" => Len(yielded) = Len(InScope)

C9_Witness ==
    /\ pc = "export" /\ Len(yielded) = 2
    /\ yielded[1].author = None /\ yielded[2].committer = None
    /\ commit_data_frame # None /\ Len(commit_data_frame.rows) = 2

\* C10: no step removes or changes a record of the commits buffer: the
\* buffer before a step is a prefix of the buffer after it.
C10_BufferAppendOnly ==
    [][IsPrefix(commits, commits')]_vars

C10_Witness ==
    /\ calls = 2 /\ pc = "traverse"
    /\ Len(yielded) >= 1 /\ Len(commits) > Len(yielded)
====
